---- MODULE Spec2Model ----
(***************************************************************************)
(* A model of odin's mapping compiler (MappingMeta.__new__), of the        *)
(* mapping executor (MappingBase.apply / convert / _apply_rule) and of the *)
(* loop context kept in context['_loop_idx'].                              *)
(***************************************************************************)
EXTENDS Integers, Sequences, FiniteSets, TLC

VARIABLES
    mappings,   \* the registry: (from_obj, to_obj) -> index into classes, 0 when absent
    classes,    \* every mapping class created by the metaclass, in creation order
    ret,        \* what the last compilation or single-instance apply returned or raised
    bad_base,   \* the last class statement named a base its types do not derive from
    source,     \* convert: self.source, attribute name -> value
    rules,      \* convert: self._mapping_rules of the instance
    pc,         \* convert: number of rules of the for loop already applied
    values,     \* convert: the accumulator values
    update,     \* convert: what the last rule step did (rule, to_values, returned dict)
    outcome,    \* convert: "running", "created", or the error raised
    loop_idx,   \* context['_loop_idx']
    frames,     \* the active result_iter generators, outermost first
    obs,        \* the last loop_idx / loop_level read by a rule action
    exc,        \* an exception is propagating out of the innermost generator
    ended,      \* how the sequence application that ended last ended
    apps        \* number of sequence applications started so far

vars == <<mappings, classes, ret, bad_base, source, rules, pc, values, update, outcome,
          loop_idx, frames, obs, exc, ended, apps>>

compileVars == <<mappings, classes, ret, bad_base>>
convertVars == <<source, rules, pc, values, update, outcome>>
loopVars == <<loop_idx, frames, obs, exc, ended, apps>>

(***************************************************************************)
(* Types and their field maps                                              *)
(***************************************************************************)
NoneT == "None"
Plain == "Plain"
SrcTypes == {"Animal", "Dog"}
DstTypes == {"AnimalDto", "DogDto"}
Pairs == SrcTypes \X DstTypes

issubclass(a, b) ==
    \/ a = b
    \/ a = "Dog" /\ b = "Animal"
    \/ a = "DogDto" /\ b = "AnimalDto"

Field(k, of) == [kind |-> k, of |-> of]

\* obj._meta.field_map, in declaration order: name and descriptor
field_map(t) ==
    LET base == << <<"a", Field("plain", NoneT)>>, <<"b", Field("plain", NoneT)>> >>
        src == base \o << <<"n", Field("plain", NoneT)>> >>
        comp(o) == << <<"l", Field("ListOf", o)>>, <<"d", Field("ListOf", "Animal")>>,
                      <<"s", Field("DictAs", o)>>, <<"c", Field("DictAs", "Animal")>> >>
    IN CASE t = "Animal" -> src
         [] t = "AnimalDto" -> base \o << <<"x", Field("plain", NoneT)>> >>
         [] t = "Dog" -> src \o comp("Animal")
         [] t = "DogDto" -> base \o << <<"x", Field("plain", NoneT)>> >> \o comp("AnimalDto")
         [] OTHER -> << >>

has_field_resolver(t) == t \in SrcTypes \cup DstTypes

FieldNames(fm) == [i \in 1..Len(fm) |-> fm[i][1]]
Range(s) == {s[i] : i \in 1..Len(s)}
FieldOf(fm, name) == (CHOOSE i \in 1..Len(fm) : fm[i][1] = name)

(***************************************************************************)
(* Rule declarations                                                       *)
(***************************************************************************)
\* a from_field / to_field argument: None, one name, or a tuple of names
FNone == [k |-> "none", names |-> << >>]
FName(n) == [k |-> "name", names |-> <<n>>]
FTuple(ns) == [k |-> "tuple", names |-> ns]

\* an action argument: None, the name of an attribute, a callable, another object,
\* or (auto mappings) a MapListOf / MapDictAs helper around mapping class m
ANone == [k |-> "none", name |-> "", m |-> 0]
AName(n) == [k |-> "name", name |-> n, m |-> 0]
ACallable(n) == [k |-> "callable", name |-> n, m |-> 0]
AObject(n) == [k |-> "object", name |-> n, m |-> 0]
AHelper(h, m) == [k |-> h, name |-> IF m = 0 THEN "NoOpMapper" ELSE "mapping", m |-> m]

force_tuple(x) == IF x.k = "name" \/ x.k = "tuple" THEN x.names ELSE <<NoneT>>

Falsy(x) == x.k = "none" \/ (x.k = "tuple" /\ x.names = << >>)

Rule(f, a, t, tl, b, s) ==
    [from |-> f, action |-> a, to |-> t, to_list |-> tl, bind |-> b, skip_if_none |-> s]

define(from_field, action, to_field, to_list, bind, skip_if_none) ==
    [len |-> 6, from |-> from_field, action |-> action,
     to |-> IF Falsy(to_field) THEN from_field ELSE to_field,
     to_list |-> to_list, bind |-> bind, skip_if_none |-> skip_if_none]

\* a bare tuple written in `mappings`; len is the tuple's length
Tuple3(f, a, t) ==
    [len |-> 3, from |-> f, action |-> a, to |-> t,
     to_list |-> FALSE, bind |-> FALSE, skip_if_none |-> FALSE]
Tuple2(f, a) ==
    [len |-> 2, from |-> f, action |-> a, to |-> FNone,
     to_list |-> FALSE, bind |-> FALSE, skip_if_none |-> FALSE]

Custom(deco, func, from_field, to_field, to_list) ==
    [deco |-> deco, func |-> func, from_field |-> from_field, to_field |-> to_field,
     to_list |-> to_list]

map_field(c) ==
    define(IF Falsy(c.from_field) THEN FName(c.func) ELSE c.from_field,
           AName(c.func),
           IF Falsy(c.to_field) THEN FName(c.func) ELSE c.to_field,
           c.to_list, FALSE, FALSE)

map_list_field(c) == map_field([c EXCEPT !.to_list = TRUE])

assign_field(c) ==
    define(FNone, AName(c.func),
           IF Falsy(c.to_field) THEN FName(c.func) ELSE c.to_field,
           c.to_list, FALSE, FALSE)

\* the _mapping attribute a decorator leaves on the function
_mapping(c) ==
    CASE c.deco = "map_field" -> map_field(c)
      [] c.deco = "map_list_field" -> map_list_field(c)
      [] OTHER -> assign_field(c)

(***************************************************************************)
(* The registry (odin.registration) and the compiler (MappingMeta.__new__) *)
(***************************************************************************)
\* registration.get_mapping: the class registered for the pair, 0 for KeyError
get_mapping(reg, from_obj, to_obj) ==
    IF <<from_obj, to_obj>> \in DOMAIN reg THEN reg[<<from_obj, to_obj>>] ELSE 0

\* registration.register_mapping: keyed by the class's own (from_obj, to_obj)
register_mapping(reg, cls, id) ==
    [reg EXCEPT ![<<cls.from_obj, cls.to_obj>>] = id]

Ok(rule) == [err |-> "", rule |-> rule]

\* lines 212-214: some name of map_to is not a field of the to object
unknown_to_field_unchecked(map_to, to_fields) == FALSE

unknown_to_field(map_to, to_fields) ==
    \E i \in 1..Len(map_to) : map_to[i] \notin Range(to_fields)
SetupError(msg) == [err |-> msg, rule |-> Rule(FNone, ANone, << >>, FALSE, FALSE, FALSE)]

attr_mapping_to_mapping_rule(m, attrs, callables, from_fields, to_fields) ==
    LET is_assignment == m.from.k = "none"
        map_from == IF is_assignment THEN << >> ELSE force_tuple(m.from)
        map_to == force_tuple(m.to)
    IN  IF m.len \notin {3, 6} THEN SetupError("Bad mapping definition")
        ELSE IF \E i \in 1..Len(map_from) : map_from[i] \notin Range(from_fields)
            THEN SetupError("not found on from object")
        ELSE IF m.action.k = "name" /\ m.action.name \notin attrs
            THEN SetupError("was not defined on mapping object")
        ELSE IF m.action.k = "name" /\ m.action.name \notin callables
            THEN SetupError("is not callable")
        ELSE IF m.action.k = "object"
            THEN SetupError("is not callable")
        ELSE IF m.action.k = "none" /\ is_assignment
            THEN SetupError("No action supplied")
        ELSE IF m.to_list /\ Len(map_to) # 1
            THEN SetupError("to_list mapping on several target fields")
        ELSE IF unknown_to_field(map_to, to_fields)
            THEN SetupError("not found on to object")
        ELSE Ok(Rule(IF is_assignment THEN FNone ELSE FTuple(map_from),
                     m.action, map_to, m.to_list, m.bind, m.skip_if_none))

RECURSIVE RemoveFirst(_, _)
RemoveFirst(s, x) ==
    IF s = << >> THEN << >>
    ELSE IF Head(s) = x THEN Tail(s)
    ELSE <<Head(s)>> \o RemoveFirst(Tail(s), x)

remove_from_unmapped_fields(unmapped_fields, rule) ==
    LET map_to == rule.to
    IN  IF Len(map_to) = 1 /\ map_to[1] \in Range(unmapped_fields)
        THEN RemoveFirst(unmapped_fields, map_to[1])
        ELSE unmapped_fields

RECURSIVE RemoveAllHandled(_, _)
RemoveAllHandled(unmapped_fields, rs) ==
    IF rs = << >> THEN unmapped_fields
    ELSE RemoveAllHandled(remove_from_unmapped_fields(unmapped_fields, Head(rs)), Tail(rs))

AsRule(d) == Rule(d.from, d.action, force_tuple(d.to), d.to_list, d.bind, d.skip_if_none)

\* an identity rule for every field, composite or not
_generate_auto_mapping_plain(name, from_fields, to_fields, reg) ==
    AsRule(define(FTuple(<<name>>), ANone, FTuple(<<name>>), FALSE, FALSE, FALSE))

_generate_auto_mapping(name, from_fields, to_fields, reg) ==
    LET from_field == from_fields[FieldOf(from_fields, name)][2]
        to_field == to_fields[FieldOf(to_fields, name)][2]
        n == FTuple(<<name>>)
        mapping == get_mapping(reg, from_field.of, to_field.of)
        composite(helper, to_list) ==
            IF mapping # 0
            THEN define(n, AHelper(helper, mapping), n, to_list, TRUE, FALSE)
            ELSE IF from_field.of = to_field.of
            THEN define(n, AHelper(helper, 0), n, to_list, TRUE, FALSE)
            ELSE define(n, ANone, n, FALSE, FALSE, FALSE)
    IN  AsRule(IF from_field.kind = "ListOf" /\ to_field.kind = "ListOf"
               THEN composite("MapListOf", TRUE)
               ELSE IF from_field.kind = "DictAs" /\ to_field.kind = "DictAs"
               THEN composite("MapDictAs", FALSE)
               ELSE define(n, ANone, n, FALSE, FALSE, FALSE))

\* the loops over the mappings attribute and over the decorated attributes
RECURSIVE NormaliseAll(_, _, _, _, _)
NormaliseAll(ms, attrs, callables, from_fields, to_fields) ==
    IF ms = << >> THEN [err |-> "", rules |-> << >>]
    ELSE LET h == attr_mapping_to_mapping_rule(Head(ms), attrs, callables,
                                               from_fields, to_fields)
         IN  IF h.err # "" THEN [err |-> h.err, rules |-> << >>]
             ELSE LET t == NormaliseAll(Tail(ms), attrs, callables, from_fields, to_fields)
                  IN  [err |-> t.err, rules |-> <<h.rule>> \o t.rules]

\* the parents' rules copied without the issubclass checks
RECURSIVE CopyParents_unchecked(_, _, _, _)
CopyParents_unchecked(cs, ps, from_obj, to_obj) ==
    IF ps = << >> THEN [err |-> "", rules |-> << >>]
    ELSE LET t == CopyParents_unchecked(cs, Tail(ps), from_obj, to_obj)
         IN  [err |-> t.err, rules |-> cs[Head(ps)]._mapping_rules \o t.rules]

\* the parents' rules copied last parent first
RECURSIVE CopyParents_reversed(_, _, _, _)
CopyParents_reversed(cs, ps, from_obj, to_obj) ==
    IF ps = << >> THEN [err |-> "", rules |-> << >>]
    ELSE LET p == cs[Head(ps)]
         IN  IF ~issubclass(from_obj, p.from_obj)
             THEN [err |-> "from_obj must be a subclass of parent.from_obj", rules |-> << >>]
             ELSE IF ~issubclass(to_obj, p.to_obj)
             THEN [err |-> "to_obj must be a subclass of parent.to_obj", rules |-> << >>]
             ELSE LET t == CopyParents_reversed(cs, Tail(ps), from_obj, to_obj)
                  IN  [err |-> t.err, rules |-> t.rules \o p._mapping_rules]

\* the loop over base_parents: type checks, then a copy of the parent's rules
RECURSIVE CopyParents(_, _, _, _)
CopyParents(cs, ps, from_obj, to_obj) ==
    IF ps = << >> THEN [err |-> "", rules |-> << >>]
    ELSE LET p == cs[Head(ps)]
         IN  IF ~issubclass(from_obj, p.from_obj)
             THEN [err |-> "from_obj must be a subclass of parent.from_obj", rules |-> << >>]
             ELSE IF ~issubclass(to_obj, p.to_obj)
             THEN [err |-> "to_obj must be a subclass of parent.to_obj", rules |-> << >>]
             ELSE LET t == CopyParents(cs, Tail(ps), from_obj, to_obj)
                  IN  [err |-> t.err, rules |-> p._mapping_rules \o t.rules]

Tags(n, tag) == [i \in 1..n |-> tag]

\* lines 162-269: the rule list of a new mapping class, or the setup error
mapping_rules(cs, reg, from_obj, to_obj, parents, body) ==
    LET from_fields == field_map(from_obj)
        to_fields == field_map(to_obj)
        fn == FieldNames(from_fields)
        tn == FieldNames(to_fields)
        callables == body.methods \cup {body.customs[i].func : i \in 1..Len(body.customs)}
        attrs == callables \cup body.attributes
        unmapped0 == SelectSeq(fn, LAMBDA attname : attname \notin body.exclude_fields)
        inherited == CopyParents(cs, parents, from_obj, to_obj)
        basic == NormaliseAll(body.mappings, attrs, callables, fn, tn)
        custom == NormaliseAll([i \in 1..Len(body.customs) |-> _mapping(body.customs[i])],
                               attrs, callables, fn, tn)
        declared == inherited.rules \o basic.rules \o custom.rules
        unmapped_fields == RemoveAllHandled(unmapped0, declared)
        auto_fields == SelectSeq(unmapped_fields, LAMBDA field : field \in Range(tn))
        auto == [i \in 1..Len(auto_fields) |->
                    _generate_auto_mapping(auto_fields[i], from_fields, to_fields, reg)]
    IN  IF ~has_field_resolver(from_obj)
        THEN [err |-> "from_obj does not have an attribute resolver defined", rules |-> << >>,
              origin |-> << >>]
        ELSE IF ~has_field_resolver(to_obj)
        THEN [err |-> "to_obj does not have an attribute resolver defined", rules |-> << >>,
              origin |-> << >>]
        ELSE IF inherited.err # "" THEN [err |-> inherited.err, rules |-> << >>, origin |-> << >>]
        ELSE IF basic.err # "" THEN [err |-> basic.err, rules |-> << >>, origin |-> << >>]
        ELSE IF custom.err # "" THEN [err |-> custom.err, rules |-> << >>, origin |-> << >>]
        ELSE [err |-> "", rules |-> declared \o auto,
              origin |-> Tags(Len(inherited.rules), "inherited") \o Tags(Len(basic.rules), "basic")
                         \o Tags(Len(custom.rules), "custom") \o Tags(Len(auto), "auto")]

(***************************************************************************)
(* The mapping declarations the compiler is given                          *)
(***************************************************************************)
MaxParents == 2

R_ax == Tuple3(FName("a"), ANone, FName("x"))
R_ab == Tuple3(FTuple(<<"a", "b">>), ANone, FTuple(<<"b", "a">>))
R_zz == Tuple3(FName("a"), ANone, FName("zz"))
R_qq == Tuple3(FName("qq"), ANone, FName("a"))
R_asg == define(FNone, AName("f"), FName("x"), FALSE, FALSE, FALSE)
R_asgN == Tuple3(FNone, ANone, FName("x"))
R_empN == Tuple3(FTuple(<< >>), ANone, FName("x"))
R_tl == define(FName("a"), AName("g"), FName("x"), TRUE, FALSE, FALSE)
R_tl2 == define(FName("a"), AName("g"), FTuple(<<"a", "b">>), TRUE, FALSE, FALSE)
R_skip == define(FName("b"), ANone, FNone, FALSE, FALSE, TRUE)
R_skip2 == define(FTuple(<<"a", "b">>), AName("g2"), FTuple(<<"a", "x">>), FALSE, FALSE, TRUE)
R_bind == define(FName("a"), ACallable("fn"), FName("x"), FALSE, TRUE, FALSE)
R_nf == Tuple3(FName("a"), AName("nope"), FName("x"))
R_nc == Tuple3(FName("a"), AName("v"), FName("x"))
R_obj == Tuple3(FName("a"), AObject("o"), FName("x"))
R_bad == Tuple2(FName("a"), ANone)
R_bindm == define(FName("b"), AName("g"), FNone, FALSE, TRUE, FALSE)
R_tlskip == define(FName("a"), AName("g"), FName("x"), TRUE, FALSE, TRUE)

C_b == Custom("map_field", "b", FNone, FNone, FALSE)
C_k == Custom("assign_field", "k", FNone, FName("x"), FALSE)
C_h == Custom("map_list_field", "h", FName("a"), FName("b"), FALSE)
C_zz == Custom("map_field", "h", FName("a"), FName("zz"), FALSE)

Body(ms, cs, ex) ==
    [mappings |-> ms, customs |-> cs, exclude_fields |-> ex,
     methods |-> {"f", "g", "g2"}, attributes |-> {"v"}]

B_auto == Body(<< >>, << >>, {})
B_ab == Body(<<R_ab>>, << >>, {})
B_emp == Body(<<R_empN>>, <<C_b>>, {})
B_skip == Body(<<R_asg, R_skip>>, << >>, {"a"})
B_list == Body(<<R_tl>>, <<C_k, C_h>>, {"d"})

BadBodies ==
    { Body(<<R_zz>>, << >>, {}),
      Body(<< >>, <<C_zz>>, {}),
      Body(<<R_ax, R_zz>>, <<C_b>>, {}),
      Body(<<R_asgN>>, << >>, {}),
      Body(<<R_tl2>>, << >>, {}),
      Body(<<R_qq>>, << >>, {}),
      Body(<<R_nf>>, << >>, {}),
      Body(<<R_nc>>, << >>, {}),
      Body(<<R_obj>>, << >>, {}),
      Body(<<R_bad>>, << >>, {}) }

Decl(from_obj, to_obj, body) == [from_obj |-> from_obj, to_obj |-> to_obj, body |-> body]

\* the class statements: from_obj, to_obj and the class body
Declarations ==
    { Decl("Animal", "AnimalDto", B_ab), Decl("Animal", "AnimalDto", B_emp),
      Decl("Animal", "DogDto", B_skip),
      Decl("Dog", "DogDto", B_list), Decl("Dog", "DogDto", B_auto),
      Decl(NoneT, "AnimalDto", B_auto), Decl("Animal", NoneT, B_auto),
      Decl(Plain, "AnimalDto", B_auto), Decl("Animal", Plain, B_auto) }
    \cup {Decl("Animal", "AnimalDto", b) : b \in BadBodies}
    \cup {Decl("Dog", "DogDto", b) : b \in BadBodies}

\* the mapping classes `c` derives from, itself included
RECURSIVE Ancestors(_, _)
Ancestors(cs, c) ==
    {c} \cup UNION {Ancestors(cs, cs[c].bases[i]) : i \in 1..Len(cs[c].bases)}

\* the base lists of a class statement: existing mapping classes, none twice and
\* none listed before one of its own subclasses (Python refuses such an MRO)
BaseLists(cs) ==
    LET ids == 1..Len(cs)
        seqs == UNION {[1..n -> ids] : n \in 0..MaxParents}
    IN  {ps \in seqs :
            \A i, j \in 1..Len(ps) :
                i < j => ps[i] # ps[j] /\ ps[i] \notin Ancestors(cs, ps[j])}

(***************************************************************************)
(* MappingMeta.__new__ for one class statement                             *)
(***************************************************************************)
NoDecl == Decl(NoneT, NoneT, B_auto)

\* what a call returned or raised, with the call it answers
Returned(kind, m, info) ==
    [kind |-> kind, m |-> m, info |-> info,
     op |-> "apply", decl |-> NoDecl, cls |-> 0, source_class |-> NoneT]

Compiled(decl, kind, m, info) ==
    [Returned(kind, m, info) EXCEPT !.op = "compile", !.decl = decl]

NewClass(from_obj, to_obj, parents, body, built) ==
    [from_obj |-> from_obj, to_obj |-> to_obj, bases |-> parents,
     exclude_fields |-> body.exclude_fields,
     _mapping_rules |-> built.rules, origin |-> built.origin,
     _subs |-> [t \in SrcTypes |-> 0]]

\* lines 271-276: register the class, then enter it in every parent's _subs
RegisterWithParents(cs, parents, from_obj, mapper) ==
    [i \in 1..Len(cs) |->
        IF i \in Range(parents) THEN [cs[i] EXCEPT !._subs[from_obj] = mapper] ELSE cs[i]]

\* lines 162-278: compile the declaration and register the new class
compile_new(decl, parents) ==
    LET from_obj == decl.from_obj
        to_obj == decl.to_obj
        built == mapping_rules(classes, mappings, from_obj, to_obj, parents, decl.body)
        id == Len(classes) + 1
        cls == NewClass(from_obj, to_obj, parents, decl.body, built)
        reg == register_mapping(mappings, cls, id)
        mapper == get_mapping(reg, from_obj, to_obj)
    IN  IF built.err # ""
        THEN /\ ret' = Compiled(decl, "MappingSetupError", 0, built.err)
             /\ UNCHANGED <<mappings, classes>>
        ELSE /\ mappings' = reg
             /\ classes' = RegisterWithParents(Append(classes, cls), parents, from_obj, mapper)
             /\ ret' = Compiled(decl, "mapping", mapper, "compiled")

undefined_obj(decl) ==
    IF decl.from_obj = NoneT
    THEN /\ ret' = Compiled(decl, "MappingSetupError", 0, "from_obj is not defined")
         /\ UNCHANGED <<mappings, classes>>
    ELSE /\ ret' = Compiled(decl, "MappingSetupError", 0, "to_obj is not defined")
         /\ UNCHANGED <<mappings, classes>>

MappingMeta_new_always(decl, parents) ==
    IF decl.from_obj = NoneT \/ decl.to_obj = NoneT
    THEN undefined_obj(decl)
    ELSE compile_new(decl, parents)

MappingMeta_new(decl, parents) ==
    IF decl.from_obj = NoneT \/ decl.to_obj = NoneT
    THEN undefined_obj(decl)
    ELSE IF get_mapping(mappings, decl.from_obj, decl.to_obj) # 0
    THEN /\ ret' = Compiled(decl, "mapping",
                            get_mapping(mappings, decl.from_obj, decl.to_obj), "registered")
         /\ UNCHANGED <<mappings, classes>>
    ELSE compile_new(decl, parents)

\* some class of parents has a from_obj or to_obj the declaration's is no subclass of
IncompatibleBase(cs, decl, parents) ==
    \E i \in 1..Len(parents) :
        \/ ~issubclass(decl.from_obj, cs[parents[i]].from_obj)
        \/ ~issubclass(decl.to_obj, cs[parents[i]].to_obj)

Compile ==
    /\ \E decl \in Declarations, parents \in BaseLists(classes) :
            /\ MappingMeta_new(decl, parents)
            /\ bad_base' = IncompatibleBase(classes, decl, parents)
    /\ UNCHANGED <<convertVars, loopVars>>

(***************************************************************************)
(* MappingBase.apply on a single source instance: the dispatch             *)
(***************************************************************************)
InstanceTypes == SrcTypes \cup {Plain}

\* MappingBase.__init__: the instance's class must be the mapping's from_obj
Mapping_init(c, source_class) ==
    IF source_class # classes[c].from_obj
    THEN Returned("TypeError", 0, "must be an instance of from_obj")
    ELSE Returned("convert", c, classes[c].to_obj)

sub_lookup(c, source_class) ==
    IF source_class \in DOMAIN classes[c]._subs THEN classes[c]._subs[source_class] ELSE 0

\* lines 310-318: cls.apply(source_resource) for an instance of source_class
apply_single_isinstance(c, source_class) ==
    IF issubclass(source_class, classes[c].from_obj)
    THEN Returned("convert", c, classes[c].to_obj)
    ELSE Returned("TypeError", 0, "must be an instance (or subclass instance)")

apply_single(c, source_class) ==
    IF source_class = classes[c].from_obj
    THEN Mapping_init(c, source_class)
    ELSE LET sub_mapping == sub_lookup(c, source_class)
         IN  IF sub_mapping = 0
             THEN Returned("TypeError", 0, "must be an instance (or subclass instance)")
             ELSE Mapping_init(sub_mapping, source_class)

Apply ==
    /\ \E c \in 1..Len(classes), source_class \in InstanceTypes :
            ret' = [apply_single(c, source_class) EXCEPT
                        !.cls = c, !.source_class = source_class]
    /\ bad_base' = FALSE
    /\ UNCHANGED <<mappings, classes, convertVars, loopVars>>

(***************************************************************************)
(* Values, and the rule executor (MappingBase._apply_rule, convert)        *)
(***************************************************************************)
MaxItems == 3

\* a Python value: None, an int, a tuple, a list, or a generator yet to be consumed
VNone == [t |-> "none", v |-> 0, items |-> << >>]
VInt(n) == [t |-> "int", v |-> n, items |-> << >>]
VTuple(items) == [t |-> "tuple", v |-> 0, items |-> items]
VList(items) == [t |-> "list", v |-> 0, items |-> items]
VGen(items) == [t |-> "generator", v |-> 0, items |-> items]

Items(k) == [i \in 1..k |-> VInt(i)]

\* isinstance(x, collections.Iterable)
Iterable(x) == x.t \in {"tuple", "list", "generator"}
\* len(x) is defined
Sized(x) == x.t \in {"tuple", "list"}
\* list(x): the items in production order
list(x) == VList(x.items)

\* force_tuple applied to the values a rule produced
force_tuple_value(x) == IF x.t \in {"list", "tuple"} THEN x ELSE VTuple(<<x>>)

\* positional parameters of the callables of a mapping class, self not counted
Arity(action) ==
    CASE action.name \in {"f", "k"} -> 0
      [] action.name \in {"g", "h", "b"} -> 1
      [] OTHER -> 2

\* what a call of an action can do: raise TypeError in its body, or return a value
Raises == [raised |-> TRUE, val |-> VNone]
Returns(v) == [raised |-> FALSE, val |-> v]
ReturnValues ==
    {VNone, VInt(1)}
    \cup {VGen(Items(k)) : k \in 0..MaxItems}
    \cup {VList(Items(k)) : k \in 0..MaxItems}
    \cup {VTuple(t) : t \in {<< >>, <<VNone>>, <<VInt(1), VNone>>, <<VNone, VNone>>,
                             <<VInt(1), VInt(2)>>}}
ActionOutcomes == {Raises} \cup {Returns(v) : v \in ReturnValues}

NoValues == [f \in {} |-> VNone]
Failed(kind, returned) ==
    [err |-> kind, returned |-> returned, to_values |-> VNone, dict |-> NoValues]

\* the dict comprehension of lines 389-392; a later index wins a repeated key
rule_dict_all(to_fields, to_values, skip_if_none) ==
    [f \in Range(to_fields) |->
        to_values.items[CHOOSE i \in 1..Len(to_fields) :
            to_fields[i] = f /\ \A j \in 1..Len(to_fields) : to_fields[j] = f => j <= i]]

rule_dict(to_fields, to_values, skip_if_none) ==
    LET kept == {i \in 1..Len(to_fields) : ~skip_if_none \/ to_values.items[i] # VNone}
        last(f) == CHOOSE i \in kept : to_fields[i] = f /\ \A j \in kept : to_fields[j] = f => j <= i
    IN  [f \in {to_fields[i] : i \in kept} |-> to_values.items[last(f)]]

\* lines 379-383: to_list turns an iterable result into one list value
materialise_spread(result, to_list) ==
    IF to_list /\ Iterable(result) THEN VTuple(result.items) ELSE force_tuple_value(result)

materialise(result, to_list) ==
    IF to_list
    THEN (IF Iterable(result) THEN VTuple(<<list(result)>>) ELSE result)
    ELSE force_tuple_value(result)

\* _apply_rule on self.source = src; `out` is what the action does when it is called
_apply_rule(src, mapping_rule, out) ==
    LET from_fields == mapping_rule.from
        action == mapping_rule.action
        to_fields == mapping_rule.to
        from_values == IF from_fields.k = "none" THEN << >>
                       ELSE [i \in 1..Len(from_fields.names) |-> src[from_fields.names[i]]]
        nargs == Len(from_values) + (IF mapping_rule.bind THEN 1 ELSE 0)
        called == action.k # "none"
        raised == called /\ (nargs # Arity(action) \/ out.raised)
        result == IF called THEN out.val ELSE VTuple(from_values)
        to_values == materialise(result, mapping_rule.to_list)
        returned == called /\ ~raised
    IN  IF raised THEN Failed("MappingExecutionError", FALSE)
        ELSE IF ~Sized(to_values) THEN Failed("TypeError", returned)
        ELSE IF Len(to_fields) # Len(to_values.items)
        THEN Failed("MappingExecutionError", returned)
        ELSE [err |-> "", returned |-> returned, to_values |-> to_values,
              dict |-> rule_dict(to_fields, to_values, mapping_rule.skip_if_none)]

\* the outcomes that matter for a rule: one when no action is called
OutcomesOf(mapping_rule) ==
    IF mapping_rule.action.k = "none" THEN {Returns(VNone)} ELSE ActionOutcomes

(***************************************************************************)
(* convert: one mapping instance applied to one source instance            *)
(***************************************************************************)
\* the rule lists of the Animal -> AnimalDto mappings that are executed
ExecBodies ==
    { B_auto, B_ab, B_emp, B_skip, B_list,
      Body(<<R_skip2, R_bind>>, << >>, {}),
      Body(<<R_bindm, R_ax>>, << >>, {}),
      Body(<<R_tlskip>>, << >>, {"b"}) }

ExecRules ==
    {mapping_rules(<< >>, [p \in Pairs |-> 0], "Animal", "AnimalDto", << >>, b).rules :
        b \in ExecBodies}

\* Animal instances, and the field_values convert is called with
Sources ==
    {[a |-> va, b |-> vb, n |-> VInt(3)] :
        va \in {VNone, VInt(1), VList(Items(2))}, vb \in {VNone, VInt(2)}}
FieldValues == {NoValues, [f \in {"x"} |-> VInt(9)], [f \in {"b"} |-> VInt(9)]}

NoUpdate ==
    [n |-> 0, err |-> "", out |-> Returns(VNone), returned |-> FALSE, to_values |-> VNone,
     dict |-> NoValues, before |-> NoValues]

\* cls(source_resource, context).convert(**field_values) up to the for loop
StartConvert ==
    /\ outcome # "running"
    /\ \E rs \in ExecRules, src \in Sources, field_values \in FieldValues :
        /\ rules' = rs
        /\ source' = src
        /\ values' = field_values
    /\ pc' = 0
    /\ update' = NoUpdate
    /\ outcome' = "running"
    /\ UNCHANGED <<compileVars, loopVars>>

\* the for loop going on after a rule that failed
ApplyRule_continue ==
    /\ outcome = "running"
    /\ pc < Len(rules)
    /\ \E out \in OutcomesOf(rules[pc + 1]) :
        LET r == _apply_rule(source, rules[pc + 1], out)
        IN  /\ update' = [n |-> pc + 1, err |-> r.err, out |-> out, returned |-> r.returned,
                          to_values |-> r.to_values, dict |-> r.dict, before |-> values]
            /\ values' = r.dict @@ values
            /\ pc' = pc + 1
            /\ UNCHANGED outcome
    /\ UNCHANGED <<source, rules, compileVars, loopVars>>

\* one turn of the for loop: values.update(self._apply_rule(mapping_rule))
ApplyRule ==
    /\ outcome = "running"
    /\ pc < Len(rules)
    /\ \E out \in OutcomesOf(rules[pc + 1]) :
        LET r == _apply_rule(source, rules[pc + 1], out)
        IN  /\ update' = [n |-> pc + 1, err |-> r.err, out |-> out, returned |-> r.returned,
                          to_values |-> r.to_values, dict |-> r.dict, before |-> values]
            /\ IF r.err # ""
               THEN /\ outcome' = r.err
                    /\ UNCHANGED <<pc, values>>
               ELSE /\ values' = r.dict @@ values
                    /\ pc' = pc + 1
                    /\ UNCHANGED outcome
    /\ UNCHANGED <<source, rules, compileVars, loopVars>>

\* return self.create_object(**values)
CreateObject ==
    /\ outcome = "running"
    /\ pc = Len(rules)
    /\ outcome' = "created"
    /\ UNCHANGED <<source, rules, pc, values, update, compileVars, loopVars>>

(***************************************************************************)
(* apply on a sequence: result_iter and context['_loop_idx']               *)
(***************************************************************************)
MaxLen == 2
MaxApps == 3

Frame(n, d0) == [n |-> n, i |-> 0, d0 |-> d0]
Top == frames[Len(frames)]
Front(s) == SubSeq(s, 1, Len(s) - 1)
Ended(how, f, d1) == [how |-> how, n |-> f.n, yielded |-> f.i, d0 |-> f.d0, d1 |-> d1]

\* the loop_idx property: loops[0] if loops else None (None is -1 here)
loop_idx_property(loops) == IF loops # << >> THEN loops[1] ELSE -1
\* the loop_level property
loop_level(loops) == Len(loops)

\* the first next() on result_iter(sources) with len(sources) = n: the push, and for
\* no sources the pop. At top level the context may be a fresh one.
result_iter_start(loops, n) ==
    LET pushed == Append(loops, 0)
    IN  IF n = 0 THEN Front(pushed) ELSE pushed

SeqStart ==
    /\ ~exc
    /\ apps < MaxApps
    /\ \E n \in 0..MaxLen, fresh \in BOOLEAN :
        LET loops == IF fresh THEN << >> ELSE loop_idx
        IN  /\ fresh => frames = << >>
            /\ loop_idx' = result_iter_start(loops, n)
            /\ IF n = 0
               THEN /\ ended' = Ended("exhausted", Frame(0, Len(loops)), Len(loop_idx'))
                    /\ UNCHANGED frames
               ELSE /\ frames' = Append(frames, Frame(n, Len(loops)))
                    /\ UNCHANGED ended
    /\ apps' = apps + 1
    /\ UNCHANGED <<obs, exc, compileVars, convertVars>>

\* a rule action reads self.loop_idx and self.loop_level
Observe ==
    /\ ~exc
    /\ obs' = [idx |-> loop_idx_property(loop_idx), level |-> loop_level(loop_idx),
               pos |-> IF frames = << >> THEN -1 ELSE Top.i, active |-> Len(frames)]
    /\ UNCHANGED <<loop_idx, frames, exc, ended, apps, compileVars, convertVars>>

\* the statement after the yield: context['_loop_idx'][0] += 1
increment(loops) == [loops EXCEPT ![1] = @ + 1]
\* the statement after the for loop: context['_loop_idx'].pop()
pop(loops) == Front(loops)

\* the element's result is yielded and the consumer asks for the next one
ElementDone ==
    /\ ~exc
    /\ frames # << >>
    /\ LET f == [Top EXCEPT !.i = @ + 1]
       IN  IF f.i < f.n
           THEN /\ loop_idx' = increment(loop_idx)
                /\ frames' = [frames EXCEPT ![Len(frames)] = f]
                /\ UNCHANGED ended
           ELSE /\ loop_idx' = pop(increment(loop_idx))
                /\ frames' = Front(frames)
                /\ ended' = Ended("exhausted", f, Len(loop_idx'))
    /\ UNCHANGED <<obs, exc, apps, compileVars, convertVars>>

\* cls.apply(s, context) raises: the generator ends where it stands
ElementFail ==
    /\ ~exc
    /\ frames # << >>
    /\ frames' = Front(frames)
    /\ ended' = Ended("failed", Top, Len(loop_idx))
    /\ exc' = (frames' # << >>)
    /\ UNCHANGED <<loop_idx, obs, apps, compileVars, convertVars>>

\* the rule action that consumed the inner sequence handles the exception
Catch ==
    /\ exc
    /\ exc' = FALSE
    /\ UNCHANGED <<loop_idx, frames, obs, ended, apps, compileVars, convertVars>>

\* or it does not, and the enclosing element's apply raises in turn
Propagate ==
    /\ exc
    /\ frames' = Front(frames)
    /\ ended' = Ended("failed", Top, Len(loop_idx))
    /\ exc' = (frames' # << >>)
    /\ UNCHANGED <<loop_idx, obs, apps, compileVars, convertVars>>

(***************************************************************************)
(* Specifications                                                          *)
(***************************************************************************)
CompileIdle ==
    /\ mappings = [p \in Pairs |-> 0]
    /\ classes = << >>
    /\ ret = [Returned("none", 0, "") EXCEPT !.op = "none"]
    /\ bad_base = FALSE

ConvertIdle ==
    /\ source = [a |-> VNone, b |-> VNone, n |-> VNone]
    /\ rules = << >>
    /\ pc = 0
    /\ values = NoValues
    /\ update = NoUpdate
    /\ outcome = "idle"

LoopIdle ==
    /\ loop_idx = << >>
    /\ frames = << >>
    /\ obs = [idx |-> -1, level |-> 0, pos |-> -1, active |-> 0]
    /\ exc = FALSE
    /\ ended = Ended("none", Frame(0, 0), 0)
    /\ apps = 0

Init == CompileIdle /\ ConvertIdle /\ LoopIdle

NextCompile == Compile \/ Apply
NextConvert == StartConvert \/ ApplyRule \/ CreateObject
NextLoop == SeqStart \/ Observe \/ ElementDone \/ ElementFail \/ Catch \/ Propagate

SpecCompile == Init /\ [][NextCompile]_vars
SpecConvert == Init /\ [][NextConvert]_vars
SpecLoop == Init /\ [][NextLoop]_vars

(***************************************************************************)
(* Properties of the registry and of the compiler                          *)
(***************************************************************************)
PairOf(c) == <<classes[c].from_obj, classes[c].to_obj>>
DeclPair(r) == <<r.decl.from_obj, r.decl.to_obj>>

\* C1 (state part): no two mapping classes share a (from_obj, to_obj) pair, and the
\* registry maps a pair to the class that carries it.
C1_OnePerPair ==
    /\ \A i, j \in 1..Len(classes) : PairOf(i) = PairOf(j) => i = j
    /\ \A p \in Pairs : mappings[p] # 0 =>
            mappings[p] \in 1..Len(classes) /\ PairOf(mappings[p]) = p

\* C1 (step part): a compilation for a pair that is registered returns the registered
\* class itself and creates nothing; and no step changes a class's pair or rule list.
C1_FirstWins ==
    /\ (ret'.op = "compile" /\ DeclPair(ret') \in Pairs /\ mappings[DeclPair(ret')] # 0) =>
            /\ ret'.kind = "mapping"
            /\ ret'.m = mappings[DeclPair(ret')]
            /\ classes' = classes
            /\ mappings' = mappings
    /\ \A c \in 1..Len(classes) :
            /\ c \in 1..Len(classes')
            /\ PairOf(c)' = PairOf(c)
            /\ classes'[c]._mapping_rules = classes[c]._mapping_rules

\* C1: after any sequence of compilations the registry holds at most one class per
\* (from_obj, to_obj) pair; a compilation for a registered pair returns the
\* first-registered class, compiles nothing and leaves its rule list as it was.
C1_Singleton == [](C1_OnePerPair) /\ [][C1_FirstWins]_vars

\* a second declaration of Animal -> AnimalDto, with other rules, got the first class
C1_Witness ==
    /\ ret.op = "compile"
    /\ ret.info = "registered"
    /\ ret.decl.body = B_emp
    /\ classes[ret.m]._mapping_rules[1].to = <<"b", "a">>

\* C2: apply on a mapping class with one source instance uses the class itself when
\* the instance's class is its from_obj, the class found in _subs under the
\* instance's class when there is one, and raises TypeError otherwise.
C2_Dispatch ==
    ret.op = "apply" =>
        LET c == ret.cls
            t == ret.source_class
            sub == IF t \in SrcTypes THEN classes[c]._subs[t] ELSE 0
        IN  /\ t = classes[c].from_obj =>
                ret.kind = "convert" /\ ret.m = c /\ ret.info = classes[c].to_obj
            /\ (t # classes[c].from_obj /\ sub # 0) =>
                /\ ret.kind = "convert" /\ ret.m = sub
                /\ ret.info = classes[sub].to_obj
                /\ classes[sub].from_obj = t
            /\ (t # classes[c].from_obj /\ sub = 0) =>
                ret.kind = "TypeError" /\ ret.m = 0

\* the base mapping was applied to a Dog and the Dog mapping converted it; and the
\* base mapping refused an instance it has no sub mapping for
C2_Witness ==
    /\ ret.op = "apply"
    /\ ret.kind = "convert"
    /\ ret.m # ret.cls
    /\ ret.source_class = "Dog"
    /\ classes[ret.cls].from_obj = "Animal"
    /\ ret.info = "DogDto"

\* the rule tuples a declaration states: its mappings, then its decorated functions
DeclaredRules(decl) ==
    decl.body.mappings \o [i \in 1..Len(decl.body.customs) |-> _mapping(decl.body.customs[i])]

\* the declaration has a well-formed rule tuple naming a field the to object lacks
NamesUnknownDest(decl) ==
    \E i \in 1..Len(DeclaredRules(decl)) :
        LET m == DeclaredRules(decl)[i]
        IN  /\ m.len \in {3, 6}
            /\ \E k \in 1..Len(force_tuple(m.to)) :
                    force_tuple(m.to)[k] \notin Range(FieldNames(field_map(decl.to_obj)))

\* no rule of a registered class names a field its to_obj lacks
C8_NoUnknownDest ==
    \A c \in 1..Len(classes) : \A i \in 1..Len(classes[c]._mapping_rules) :
        Range(classes[c]._mapping_rules[i].to)
            \subseteq Range(FieldNames(field_map(classes[c].to_obj)))

\* C8 as stated: every compilation of a declaration with a rule naming an unknown
\* destination field fails with MappingSetupError, and no registered class has a
\* rule with an unknown destination field.
C8_AsStated ==
    /\ (ret.op = "compile" /\ NamesUnknownDest(ret.decl)) => ret.kind = "MappingSetupError"
    /\ C8_NoUnknownDest

C8_FailsUnlessRegistered ==
    (ret'.op = "compile" /\ NamesUnknownDest(ret'.decl)
        /\ get_mapping(mappings, ret'.decl.from_obj, ret'.decl.to_obj) = 0) =>
            /\ ret'.kind = "MappingSetupError"
            /\ classes' = classes
            /\ mappings' = mappings

\* C8 (amended): compiling a declaration with an explicit or custom rule naming an
\* unknown destination field fails with MappingSetupError and registers nothing,
\* unless the pair is already registered (the declaration is then ignored); no
\* registered class has a rule with an unknown destination field.
C8_SetupError == [](C8_NoUnknownDest) /\ [][C8_FailsUnlessRegistered]_vars

\* a decorated function naming an unknown to_field was refused
C8_Witness ==
    /\ ret.op = "compile"
    /\ NamesUnknownDest(ret.decl)
    /\ ret.decl.body.customs # << >>
    /\ ret.decl.body.mappings = << >>
    /\ ret.kind = "MappingSetupError"
    /\ ret.info = "not found on to object"

\* C9: every rule of a registered class that reads no source field (from fields None
\* or empty) has an action.
C9_AssignmentHasAction ==
    \A c \in 1..Len(classes) : \A i \in 1..Len(classes[c]._mapping_rules) :
        LET r == classes[c]._mapping_rules[i]
        IN  (r.from.k = "none" \/ r.from.names = << >>) => r.action.k # "none"

\* C10: in every registered class no auto-generated rule targets a field some
\* inherited, explicit or custom rule of the class writes, nor an excluded field,
\* and each auto-generated rule is for a name of both field maps.
C10_AutoOnlyUnclaimed ==
    \A c \in 1..Len(classes) :
        LET rs == classes[c]._mapping_rules
            og == classes[c].origin
        IN  \A i \in 1..Len(rs) : og[i] = "auto" =>
                /\ \A j \in 1..Len(rs) : og[j] # "auto" => Range(rs[i].to) \cap Range(rs[j].to) = {}
                /\ Range(rs[i].to) \cap classes[c].exclude_fields = {}
                /\ Range(rs[i].to) \subseteq Range(FieldNames(field_map(classes[c].from_obj)))
                                             \cap Range(FieldNames(field_map(classes[c].to_obj)))

(***************************************************************************)
(* Properties of the rule executor                                         *)
(***************************************************************************)
\* the last turn of convert's loop applied a rule without error
Applied == update.n > 0 /\ update.err = ""
AppliedRule == rules[update.n]

C7_ToListGenerator ==
    (update.n > 0 /\ AppliedRule.to_list /\ update.returned
        /\ update.out.val.t = "generator") =>
            /\ update.err = ""
            /\ Len(AppliedRule.to) = 1
            /\ update.to_values = VTuple(<<VList(update.out.val.items)>>)
            /\ DOMAIN update.dict = {AppliedRule.to[1]}
            /\ values[AppliedRule.to[1]] = VList(update.out.val.items)
            /\ Len(values[AppliedRule.to[1]].items) = Len(update.out.val.items)

\* a to_list rule whose action returned a generator of three items
C7_Witness ==
    /\ update.n > 0
    /\ AppliedRule.to_list
    /\ update.returned
    /\ update.out.val = VGen(<<VInt(1), VInt(2), VInt(3)>>)
    /\ values[AppliedRule.to[1]] = VList(<<VInt(1), VInt(2), VInt(3)>>)

(***************************************************************************)
(* Properties of the loop context                                          *)
(***************************************************************************)
\* C3: a sequence application that is not nested in another one yields one result
\* per source, and the loop index a rule action reads while element i is processed
\* is i.
C3_IndexIsPosition ==
    /\ ended.how = "exhausted" => ended.yielded = ended.n
    /\ obs.active = 1 => obs.idx = obs.pos

\* C4: the loop index a rule action reads is the position of the innermost active
\* sequence application, whatever inner applications ran before on the context.
C4_InnermostIndex ==
    obs.active >= 1 => obs.idx = obs.pos

\* C5: an application that has ended, by exhaustion or by an error, leaves the
\* stack as deep as it found it, and the depth rule actions read is the number of
\* active applications.
C5_PushPopBalanced ==
    /\ ended.how # "none" => ended.d1 = ended.d0
    /\ ~exc => Len(loop_idx) = Len(frames)
    /\ obs.level = obs.active

(***************************************************************************)
(* Properties of inheritance between mapping classes                       *)
(***************************************************************************)
\* the rule lists of the classes ps, one after the other
RECURSIVE ParentRules(_, _)
ParentRules(cs, ps) ==
    IF ps = << >> THEN << >>
    ELSE cs[Head(ps)]._mapping_rules \o ParentRules(cs, Tail(ps))

\* rule r is the declared tuple m, normalised
IsRuleOf(r, m) ==
    /\ r.from.names = (IF m.from.k = "none" THEN << >> ELSE force_tuple(m.from))
    /\ r.action = m.action
    /\ r.to = force_tuple(m.to)
    /\ r.to_list = m.to_list /\ r.bind = m.bind /\ r.skip_if_none = m.skip_if_none

\* a step compiled a new class
NewlyCompiled == ret'.op = "compile" /\ ret'.info = "compiled"

C11_Step ==
    NewlyCompiled =>
        LET new == classes'[ret'.m]
            ps == new.bases
            body == ret'.decl.body
            inh == ParentRules(classes, ps)
            ni == Len(inh)
            nb == Len(body.mappings)
            nc == Len(body.customs)
            rs == new._mapping_rules
            fn == FieldNames(field_map(new.from_obj))
        IN  /\ ret'.m = Len(classes) + 1
            /\ Len(rs) >= ni + nb + nc
            /\ SubSeq(rs, 1, ni) = inh
            /\ \A i \in 1..nb : IsRuleOf(rs[ni + i], body.mappings[i])
            /\ \A i \in 1..nc : IsRuleOf(rs[ni + nb + i], _mapping(body.customs[i]))
            /\ \A i \in (ni + nb + nc + 1)..Len(rs) :
                    /\ new.origin[i] = "auto"
                    /\ Len(rs[i].to) = 1 /\ rs[i].from.names = rs[i].to
                    /\ \A j \in (i + 1)..Len(rs) :
                            FieldOf(field_map(new.from_obj), rs[i].to[1])
                                < FieldOf(field_map(new.from_obj), rs[j].to[1])
            /\ \A k \in 1..Len(ps) : classes'[ps[k]]._subs[new.from_obj] = ret'.m
            /\ \A c \in 1..Len(classes) :
                    classes'[c]._mapping_rules = classes[c]._mapping_rules

\* C11: the rule list of a newly compiled class is the rules of its parents P1..Pk in
\* that order, then its explicit rules in declaration order, then its custom rules,
\* then its auto-generated rules; every parent's _subs then maps the new from_obj
\* to the new class and no parent's rule list has changed.
C11_InheritedOrder == [][C11_Step]_vars

\* a class with two parents of differing rule lists, an explicit rule, custom rules
\* and auto-generated rules was compiled
C11_Witness ==
    /\ ret.op = "compile" /\ ret.info = "compiled"
    /\ Len(classes[ret.m].bases) = 2
    /\ classes[classes[ret.m].bases[1]]._mapping_rules
            # classes[classes[ret.m].bases[2]]._mapping_rules
    /\ ret.decl.body = B_list
    /\ "auto" \in Range(classes[ret.m].origin)
    /\ classes[classes[ret.m].bases[1]]._subs[classes[ret.m].from_obj] = ret.m
    /\ classes[classes[ret.m].bases[2]]._subs[classes[ret.m].from_obj] = ret.m

(***************************************************************************)
(* Properties of a failing rule                                            *)
(***************************************************************************)
\* the rule of the last turn of convert's loop, and the values it read
LastRule == rules[update.n]
LastFromValues ==
    IF LastRule.from.k = "none" THEN << >>
    ELSE [i \in 1..Len(LastRule.from.names) |-> source[LastRule.from.names[i]]]

\* the action was called with a number of arguments it does not take
ArityMismatch ==
    /\ LastRule.action.k # "none"
    /\ Len(LastFromValues) + (IF LastRule.bind THEN 1 ELSE 0) # Arity(LastRule.action)

\* the number of values the rule produced: the items of a tuple or list, one for any
\* other result, and one for the result of a to_list rule
ProducedCount ==
    LET result == IF LastRule.action.k = "none" THEN VTuple(LastFromValues)
                  ELSE update.out.val
    IN  IF ~LastRule.to_list /\ result.t \in {"tuple", "list"} THEN Len(result.items) ELSE 1

CountMismatch ==
    /\ ~ArityMismatch
    /\ ~update.out.raised
    /\ ProducedCount # Len(LastRule.to)

\* a rule that fails ends the conversion where it stands: the error is the outcome,
\* the rules after it are not run and no object is created
C12_Aborts ==
    update.n > 0 =>
        /\ (ArityMismatch \/ CountMismatch) => update.err = "MappingExecutionError"
        /\ update.err # "" =>
            /\ outcome = update.err
            /\ pc = update.n - 1
            /\ values = update.before

\* after a failure the next thing that happens is a new conversion, whose
\* accumulator holds the field_values of that call only
C12_Discarded ==
    (outcome \notin {"running", "created", "idle"}) =>
        /\ outcome' = "running"
        /\ pc' = 0
        /\ values' \in FieldValues
        /\ update' = NoUpdate

\* C12: a rule called with a wrong number of arguments, or producing a number of
\* values other than the number of its destination fields, fails the conversion with
\* MappingExecutionError; after a failing rule no further rule runs and no
\* destination object is created, and a later conversion starts from its own
\* field_values, not from the values accumulated before the failure.
C12_RuleFailureAborts == [](C12_Aborts) /\ [][C12_Discarded]_vars

\* the second rule produced two values for one field after the first rule had
\* written to the accumulator
C12_Witness ==
    /\ update.n = 2
    /\ CountMismatch
    /\ outcome = "MappingExecutionError"
    /\ DOMAIN values # DOMAIN NoValues
    /\ Len(rules) > 2

(***************************************************************************)
(* Properties of the _subs tables                                          *)
(***************************************************************************)
\* every entry T -> M of a class D's _subs: M maps from T, T derives from D's
\* from_obj and M's to_obj derives from D's to_obj
C13_SubsTyped ==
    \A d \in 1..Len(classes) : \A t \in SrcTypes :
        LET m == classes[d]._subs[t]
        IN  m # 0 =>
                /\ m \in 1..Len(classes)
                /\ classes[m].from_obj = t
                /\ issubclass(t, classes[d].from_obj)
                /\ issubclass(classes[m].to_obj, classes[d].to_obj)

\* C13 as stated: the _subs entries are typed as above, and every class statement
\* naming an incompatible base fails with MappingSetupError.
C13_AsStated ==
    /\ C13_SubsTyped
    /\ (ret.op = "compile" /\ bad_base) => ret.kind = "MappingSetupError"

C13_FailsUnlessRegistered ==
    (ret'.op = "compile" /\ bad_base') =>
        /\ classes' = classes
        /\ mappings' = mappings
        /\ get_mapping(mappings, ret'.decl.from_obj, ret'.decl.to_obj) = 0 =>
                ret'.kind = "MappingSetupError"

\* C13 (amended): the _subs entries are typed as above; a class statement naming a
\* base whose from_obj or to_obj its own types do not derive from adds nothing to
\* the registry nor to any _subs, and fails with MappingSetupError unless its pair
\* is already registered (the registered class is then returned).
C13_SubMappings == [](C13_SubsTyped) /\ [][C13_FailsUnlessRegistered]_vars

\* with a sub mapping entered in a parent, a class statement was refused because
\* its from_obj does not derive from a base's from_obj
C13_Witness ==
    /\ ret.op = "compile"
    /\ bad_base
    /\ ret.kind = "MappingSetupError"
    /\ ret.info = "from_obj must be a subclass of parent.from_obj"
    /\ \E d \in 1..Len(classes) : classes[d]._subs["Dog"] # 0 /\ classes[d].from_obj = "Animal"

(***************************************************************************)
(* Properties of the coercion of an action's result                        *)
(***************************************************************************)
\* C14: a rule with one destination field whose action returns None or another
\* non-iterable value gives the field that value, with or without to_list (unless
\* skip_if_none drops a None), and a rule never ends in an error other than
\* MappingExecutionError.
C14_ScalarCoerced ==
    update.n > 0 =>
        /\ update.err \in {"", "MappingExecutionError"}
        /\ (update.returned /\ Len(LastRule.to) = 1 /\ update.out.val.t \in {"none", "int"}) =>
                /\ update.err = ""
                /\ update.to_values = VTuple(<<update.out.val>>)
                /\ (~LastRule.skip_if_none \/ update.out.val # VNone) =>
                        values[LastRule.to[1]] = update.out.val

(***************************************************************************)
(* Properties of the auto-generated rules for composite fields             *)
(***************************************************************************)
\* the helper the two descriptors of a field call for, "" when they call for none
CompositeKind(from_field, to_field) ==
    IF from_field.kind = "ListOf" /\ to_field.kind = "ListOf" THEN "MapListOf"
    ELSE IF from_field.kind = "DictAs" /\ to_field.kind = "DictAs" THEN "MapDictAs"
    ELSE ""

\* rule r, generated for a field with these descriptors while reg was the registry,
\* is the rule the descriptors and the registry call for
AutoRuleAsClaimed(r, from_field, to_field, reg) ==
    LET kind == CompositeKind(from_field, to_field)
        registered == get_mapping(reg, from_field.of, to_field.of)
    IN  kind # "" =>
            /\ registered # 0 =>
                    /\ r.action = AHelper(kind, registered)
                    /\ r.bind /\ (r.to_list <=> kind = "MapListOf")
            /\ (registered = 0 /\ from_field.of = to_field.of) =>
                    /\ r.action.k = kind /\ r.action.name = "NoOpMapper"
                    /\ r.bind /\ (r.to_list <=> kind = "MapListOf")
            /\ (registered = 0 /\ from_field.of # to_field.of) =>
                    /\ r.action = ANone
                    /\ ~r.bind /\ ~r.to_list

C15_Step ==
    /\ NewlyCompiled =>
        LET new == classes'[ret'.m]
            from_fields == field_map(new.from_obj)
            to_fields == field_map(new.to_obj)
        IN  \A i \in 1..Len(new._mapping_rules) : new.origin[i] = "auto" =>
                LET r == new._mapping_rules[i]
                    name == r.to[1]
                IN  /\ r.from.names = <<name>> /\ r.to = <<name>> /\ ~r.skip_if_none
                    /\ AutoRuleAsClaimed(r, from_fields[FieldOf(from_fields, name)][2],
                                         to_fields[FieldOf(to_fields, name)][2], mappings)
    /\ \A c \in 1..Len(classes) : classes'[c]._mapping_rules = classes[c]._mapping_rules

\* C15: the rule generated for an unclaimed field whose two descriptors are both
\* ListOf (or both DictAs) uses the mapping registered for the element types when the
\* class is compiled; with none registered it uses the no-op mapper when the element
\* types are the same, and is a plain identity rule otherwise; ListOf composites have
\* to_list and bind, DictAs composites bind only; a mapping registered later does
\* not change the rule.
C15_CompositeAuto == [][C15_Step]_vars

\* a class compiled while no mapping for the element types of its field l was
\* registered keeps the identity rule for l after that mapping was registered; its
\* fields d and c, of the same element type on both sides, use the no-op mapper
C15_Witness ==
    /\ mappings[<<"Animal", "AnimalDto">>] # 0
    /\ mappings[<<"Dog", "DogDto">>] # 0
    /\ mappings[<<"Dog", "DogDto">>] < mappings[<<"Animal", "AnimalDto">>]
    /\ LET rs == classes[mappings[<<"Dog", "DogDto">>]]._mapping_rules
       IN  /\ \E i \in 1..Len(rs) : rs[i].to = <<"l">> /\ rs[i].action = ANone /\ ~rs[i].to_list
           /\ \E i \in 1..Len(rs) :
                /\ rs[i].to = <<"d">> /\ rs[i].action = AHelper("MapListOf", 0)
                /\ rs[i].to_list /\ rs[i].bind
           /\ \E i \in 1..Len(rs) :
                /\ rs[i].to = <<"c">> /\ rs[i].action = AHelper("MapDictAs", 0)
                /\ ~rs[i].to_list /\ rs[i].bind

====
